---------------------------- MODULE Spec2Model ----------------------------
(***************************************************************************)
(* Iterative weight estimation of src/estimativa_de_peso.py as a state     *)
(* machine: one caller issues calls of estimate_weights_iterative one      *)
(* after the other; every pass through the body of the for loop is one     *)
(* step.                                                                   *)
(*                                                                         *)
(* Arithmetic.  The program computes in IEEE doubles.  Here every          *)
(* dimensionless ratio is a decimal fixed-point number with Scale units to *)
(* one (0.4815 is 48150000), masses are hundredths of a kilogram, forces   *)
(* hundredths of a newton.  Products and quotients are formed limb by limb *)
(* so that every intermediate value stays inside TLC's 32-bit integers;    *)
(* TLC stops with an overflow error should one not.  Divisions round       *)
(* toward minus infinity; an identity of real numbers therefore holds up   *)
(* to the rounding of the operations involved, as it does in doubles.      *)
(***************************************************************************)
EXTENDS Integers, Sequences, FiniteSets, TLC

\* Units of a fixed-point ratio (eight decimal digits) and its half-width limb.
Limb == 10 ^ 4
Scale == Limb * Limb
\* Units of a kilogram, a newton, a metre per second.
Centi == 10 * 10

Abs(x) == IF x < 0 THEN -x ELSE x

\* a * b / c for a >= 0, b >= 0, c > 0, without forming a * b when a is large.
MulDiv(a, b, c) == (a \div c) * b + ((a % c) * b) \div c

\* a * b / Scale for a, b >= 0, by limbs.
FixMulPos(a, b) ==
    LET a1  == a \div Limb
        a0  == a % Limb
        b1  == b \div Limb
        b0  == b % Limb
        mid == a1 * b0 + a0 * b1
    IN  a1 * b1 + mid \div Limb + ((mid % Limb) * Limb + a0 * b0) \div Scale

\* The product of two fixed-point numbers, or of a quantity and a ratio.
FixMul(a, b) ==
    IF (a < 0) = (b < 0) THEN FixMulPos(Abs(a), Abs(b))
    ELSE - FixMulPos(Abs(a), Abs(b))

\* n more decimal digits of r / den, for 0 <= r < den.
RECURSIVE LongDiv(_, _, _)
LongDiv(r, den, n) ==
    IF n = 0 THEN 0
    ELSE ((r * 10) \div den) * 10 ^ (n - 1) + LongDiv((r * 10) % den, den, n - 1)

\* a / den as a fixed-point number, for a >= 0 and 0 < den < 2^31 / 10.
FixDiv(a, den) == (a \div den) * Scale + LongDiv(a % den, den, 8)

\* a / (b * c) as a fixed-point number.
FixDiv3(a, b, c) == FixDiv(a \div c, b) + FixDiv(a % c, b) \div c

(***************************************************************************)
(* math.log and math.exp behind the ** of line 33 and the exp of line 57.  *)
(* Ln(x) takes a positive integer x: x = m * 2^k with m in [1, 2) and      *)
(* ln x = k ln 2 + 2 atanh((m - 1) / (m + 1)).  Exp(y) takes a fixed-point *)
(* y <= 0: y = r - k ln 2 with r in (-ln 2, 0] and exp y = exp(r) / 2^k,   *)
(* exp(r) by its Taylor series.                                            *)
(***************************************************************************)
Ln2 == 69314718

RECURSIVE Log2Floor(_)
Log2Floor(x) == IF x < 2 THEN 0 ELSE 1 + Log2Floor(x \div 2)

Mantissa(x) ==
    LET k == Log2Floor(x)
    IN  IF k <= 26 THEN FixDiv(x, 2 ^ k)
        ELSE FixDiv(x \div (2 ^ (k - 26)), 2 ^ 26)

RECURSIVE AtanhSeries(_, _, _)
AtanhSeries(zn, z2, n) ==
    IF n > 17 THEN 0 ELSE zn \div n + AtanhSeries(FixMul(zn, z2), z2, n + 2)

Ln(x) ==
    LET m  == Mantissa(x)
        z  == FixDiv((m - Scale) \div 2, (m + Scale) \div 2)
    IN  Log2Floor(x) * Ln2 + 2 * AtanhSeries(z, FixMul(z, z), 1)

RECURSIVE ExpSeries(_, _, _)
ExpSeries(term, r, n) ==
    IF n > 12 THEN 0
    ELSE term + ExpSeries(FixMul(term, r) \div n, r, n + 1)

Exp(y) ==
    LET k == (-y) \div Ln2
        r == y + k * Ln2
    IN  IF k > 30 THEN 0 ELSE ExpSeries(Scale, r, 1) \div (2 ^ k)

(***************************************************************************)
(* Program constants.                                                      *)
(***************************************************************************)
\* g = 9.81 m/s^2, in hundredths.
G100 == 981
\* Raymer's coefficients A = 1.118 and C = -0.070, fixed point.
RaymerA == 111800000
RaymerC == -7000000
\* Default cruise L/D = 16.0 and TSFC = 2.0e-5 kg/(N s), the latter in 1e-7.
L_D_cruise_default == 16
TSFC_default_e7 == 200
\* Weight ratios of the phases other than cruise, and of the reserve.
W_taxi == 97000000
W_takeoff == 98500000
W_climb == 98500000
W_descent == 99500000
W_reserve_ratio == 98000000
\* Defaults of tolerance (1.0 kg) and max_iterations.
tolerance_default == 100
max_iterations_default == 50

(***************************************************************************)
(* calculate_empty_weight_fraction: A * W0_N ** C for W0_N > 0, W0_N in    *)
(* hundredths of a newton.  Python                                         *)
(* raises ZeroDivisionError for W0_N = 0 and yields a complex number for   *)
(* W0_N < 0; the callers below decide that before they use this value.     *)
(***************************************************************************)
calculate_empty_weight_fraction(W0_N) ==
    FixMul(RaymerA, Exp(FixMul(RaymerC, Ln(W0_N) - Ln(Centi))))

(***************************************************************************)
(* calculate_total_fuel_fraction.  V is in cm/s, TSFC in 1e-7 kg/(N s).    *)
(* W0 and h are parameters the body never reads.                           *)
(***************************************************************************)
BreguetExponent(R_km, V_cmps, L_D_cruise, TSFC_e7) ==
    LET R_m_g == R_km * (10 * G100)                   \* R_m * g, exact
        num   == MulDiv(R_m_g, TSFC_e7, Centi)        \* R_m * g * TSFC, in 1e-5
    IN  - FixDiv3(num, V_cmps * L_D_cruise, 1000)

calculate_total_fuel_fraction(W0, R_km, V_cmps, h_m, L_D_cruise, TSFC_e7) ==
    LET W3_W2 == Exp(BreguetExponent(R_km, V_cmps, L_D_cruise, TSFC_e7))
        W_other_phases_ratio ==
            FixMul(FixMul(FixMul(W_taxi, W_takeoff), W_climb), W_descent)
    IN  Scale - FixMul(FixMul(W3_W2, W_other_phases_ratio), W_reserve_ratio)

(***************************************************************************)
(* Bounds of the model: the inputs a caller may pass.                      *)
(***************************************************************************)
\* Iteration caps 0 .. MaxCap are tried, and the default cap.
MaxCap == 6

\* Masses in hundredths of a kilogram: 0, 30 kg, 2812 kg; 40000 kg.
Payloads    == {0, 3000, 281200}
Ranges      == {7200, 30000}
Speeds      == {25056}
Altitudes   == {12497}
Guesses     == {4000000}
Tolerances  == {0, tolerance_default, 6000}
Caps        == (0 .. MaxCap) \cup {max_iterations_default}

Arguments ==
    [W_payload_kg : Payloads, R_km : Ranges, V_cmps : Speeds, h_m : Altitudes,
     initial_W0_guess_kg : Guesses, tolerance : Tolerances,
     max_iterations : Caps, verbose : BOOLEAN]

(***************************************************************************)
(* State.  args and the locals of the call in progress (or of the last     *)
(* call); bound says whether the names first assigned inside the loop      *)
(* (We_W0_ratio, Wf_W0_ratio, W0_calc_kg, residual_kg) are bound, a name   *)
(* not yet bound holds 0 here.  ret is what the call handed to its caller, *)
(* state the solver's state, log what the logger received, evaluated the   *)
(* number of passes through the loop body that this call started.  ref is  *)
(* what the caller noted of one earlier call: its arguments and outcome.   *)
(* call is the last direct call of one of the formulas (functions without  *)
(* state): the function, its arguments and what it returned or raised.     *)
(* th holds, for each of two threads, the locals of the call of            *)
(* estimate_weights_iterative that the thread makes.  run is the run of    *)
(* main and run_full_analysis: where it is, its config, the steps it has   *)
(* started, its results dict, what it returned and whether main called     *)
(* save_results.                                                           *)
(***************************************************************************)
VARIABLES pc, args, W0_kg, i, bound, We_W0_ratio, Wf_W0_ratio, denominator,
          W0_calc_kg, residual_kg, ret, state, log, evaluated, ref, call, th,
          run

vars == <<pc, args, W0_kg, i, bound, We_W0_ratio, Wf_W0_ratio, denominator,
          W0_calc_kg, residual_kg, ret, state, log, evaluated, ref, call, th,
          run>>

\* The variables of estimate_weights_iterative and of its caller.
solver == <<pc, args, W0_kg, i, bound, We_W0_ratio, Wf_W0_ratio, denominator,
            W0_calc_kg, residual_kg, ret, state, log, evaluated, ref>>
\* The variables that no step of estimate_weights_iterative touches.
others == <<call, th, run>>

NoRef == [key |-> <<>>, state |-> "Idle", out |-> <<>>, verbose |-> FALSE]
NoCall == [fn |-> "none"]
NoRun ==
    [pc |-> "idle", config |-> <<>>, steps |-> <<>>, results |-> <<>>,
     ret |-> [kind |-> "none"], saved |-> FALSE]
Threads == {1, 2}
\* The locals of a call: a thread that has not called yet, and line 102.
IdleLocals ==
    [pc |-> "idle", args |-> <<>>, W0_kg |-> 0, i |-> 0, bound |-> FALSE,
     We_W0_ratio |-> 0, Wf_W0_ratio |-> 0, denominator |-> 0,
     W0_calc_kg |-> 0, residual_kg |-> 0, ret |-> [kind |-> "none"],
     state |-> "Idle"]
NoReturn == [kind |-> "none"]
ReturnNone == [kind |-> "None"]
ReturnDict(d) == [kind |-> "dict", value |-> d]
Raise(exc, name) == [kind |-> "raise", exc |-> exc, name |-> name]

\* Lines 102-104.
InitialW0_Stale(a) == IF state = "Idle" THEN a.initial_W0_guess_kg ELSE W0_kg
InitialW0(a) == a.initial_W0_guess_kg
W_payload_N(a) == MulDiv(a.W_payload_kg, G100, Centi)

\* Lines 106-108.
HeaderLog(a) ==
    IF a.verbose THEN <<[level |-> "info", msg |-> "header"],
                        [level |-> "info", msg |-> "rule"]>>
    ELSE <<>>

\* Line 112: W0_kg * g, the argument of calculate_empty_weight_fraction.
Force(W0) == MulDiv(W0, G100, Centi)
W0_N == Force(W0_kg)
\* Line 112.
We_at(W0) == calculate_empty_weight_fraction(Force(W0))
We_now == We_at(W0_kg)
\* Line 115.
Wf_at(a, W0) ==
    calculate_total_fuel_fraction(W0, a.R_km, a.V_cmps, a.h_m,
                                  L_D_cruise_default, TSFC_default_e7)
Wf_now == Wf_at(args, W0_kg)
\* Line 119.
Denominator(We, Wf) == Scale - We - Wf
\* Line 121.
Infeasible(den) == den <= 0
\* Line 122.
InfeasibleLog_NoValue(den) == <<[level |-> "error", msg |-> "denominator"]>>
InfeasibleLog(den) ==
    <<[level |-> "error", msg |-> "denominator", denominator |-> den]>>
\* Lines 125-126, for den > 0.
W0_calc(a, den) == MulDiv(FixDiv(W_payload_N(a), den), Centi, G100)
\* Line 128.
Residual(W0, calc) == W0 - calc
\* Line 134.
ResidualTest_NoAbs(residual, tolerance) == residual < tolerance
ResidualTest_Centi(residual, tolerance) == Abs(residual) < tolerance * Centi
ResidualTest(residual, tolerance) == Abs(residual) < tolerance
\* Lines 112-126 as a map of the guess: W0 -> payload / (1 - We(W0) - Wf), for
\* a guess the pass neither raises on nor finds infeasible.
PassFeasible(a, W0) ==
    Force(W0) > 0 /\ ~Infeasible(Denominator(We_at(W0), Wf_at(a, W0)))
IterationMap(a, W0) == W0_calc(a, Denominator(We_at(W0), Wf_at(a, W0)))
\* Lines 138-139 and 156-157.
W_empty(calc, We) == FixMul(calc, We)
W_fuel_FromGuess(calc, Wf) == FixMul(W0_kg, Wf)
W_fuel(calc, Wf) == FixMul(calc, Wf)
\* Lines 141-146.
ConvergedDict_ZeroBased(calc, We, Wf, k) ==
    [MTOW_kg |-> calc, OEW_kg |-> W_empty(calc, We),
     W_fuel_kg |-> W_fuel(calc, Wf), iterations |-> k]
ConvergedDict(calc, We, Wf, k) ==
    [MTOW_kg |-> calc, OEW_kg |-> W_empty(calc, We),
     W_fuel_kg |-> W_fuel(calc, Wf), iterations |-> k + 1]
\* Lines 159-165.
ExhaustedDict(calc, We, Wf, cap) ==
    [MTOW_kg |-> calc, OEW_kg |-> W_empty(calc, We),
     W_fuel_kg |-> W_fuel(calc, Wf), iterations |-> cap, converged |-> FALSE]
\* Line 131.
RowLog(a, k, W0, We, Wf, calc, residual) ==
    IF a.verbose
    THEN <<[level |-> "info", msg |-> "row", i |-> k, W0_kg |-> W0,
            We_W0_ratio |-> We, Wf_W0_ratio |-> Wf, W0_calc_kg |-> calc,
            residual_kg |-> residual]>>
    ELSE <<>>

\* The arguments of run_example (lines 171-189), before any call is made.
ExampleArguments ==
    [W_payload_kg |-> 281200, R_km |-> 7200, V_cmps |-> 25056, h_m |-> 12497,
     initial_W0_guess_kg |-> 4000000, tolerance |-> tolerance_default,
     max_iterations |-> max_iterations_default, verbose |-> TRUE]

Init ==
    /\ pc = "caller"
    /\ args = ExampleArguments
    /\ W0_kg = 0 /\ i = 0 /\ bound = FALSE
    /\ We_W0_ratio = 0 /\ Wf_W0_ratio = 0 /\ denominator = 0
    /\ W0_calc_kg = 0 /\ residual_kg = 0
    /\ ret = NoReturn /\ state = "Idle" /\ log = <<>> /\ evaluated = 0
    /\ ref = NoRef
    /\ call = NoCall
    /\ th = [t \in Threads |-> IdleLocals]
    /\ run = NoRun

\* Lines 102-108: the locals of a call that has just been entered.
Enter(a) ==
    /\ pc = "caller"
    /\ pc' = "loop"
    /\ args' = a
    /\ W0_kg' = InitialW0(a)
    /\ i' = 0 /\ bound' = FALSE
    /\ We_W0_ratio' = 0 /\ Wf_W0_ratio' = 0 /\ denominator' = 0
    /\ W0_calc_kg' = 0 /\ residual_kg' = 0
    /\ ret' = NoReturn /\ state' = "Iterating"
    /\ log' = HeaderLog(a)
    /\ evaluated' = 0
    /\ UNCHANGED ref

\* The caller calls estimate_weights_iterative.
Call(a) == Enter(a) /\ UNCHANGED others

InLoop == pc = "loop" /\ i < args.max_iterations

(***************************************************************************)
(* Line 112 with W0_kg * g <= 0.  0.0 ** -0.07 raises ZeroDivisionError.   *)
(* A negative base gives a complex We_W0_ratio and denominator, and the    *)
(* comparison of line 121 raises TypeError.                                *)
(***************************************************************************)
IterateRaise ==
    /\ InLoop
    /\ W0_N <= 0
    /\ pc' = "caller"
    /\ ret' = IF W0_N = 0 THEN Raise("ZeroDivisionError", "W0_N")
              ELSE Raise("TypeError", "denominator")
    /\ state' = "Raised"
    /\ evaluated' = evaluated + 1
    /\ UNCHANGED <<args, W0_kg, i, bound, We_W0_ratio, Wf_W0_ratio,
                   denominator, W0_calc_kg, residual_kg, log, ref, others>>

\* A solver that logs the error and goes on to the next pass.
IterateInfeasible_Retry ==
    /\ InLoop
    /\ W0_N > 0
    /\ Infeasible(Denominator(We_now, Wf_now))
    /\ We_W0_ratio' = We_now
    /\ Wf_W0_ratio' = Wf_now
    /\ denominator' = Denominator(We_now, Wf_now)
    /\ log' = log \o InfeasibleLog(denominator')
    /\ i' = i + 1
    /\ evaluated' = evaluated + 1
    /\ UNCHANGED <<pc, args, W0_kg, bound, W0_calc_kg, residual_kg, ret, state,
                   ref, others>>

\* Lines 112-123 with denominator <= 0.
IterateInfeasible ==
    /\ InLoop
    /\ W0_N > 0
    /\ Infeasible(Denominator(We_now, Wf_now))
    /\ We_W0_ratio' = We_now
    /\ Wf_W0_ratio' = Wf_now
    /\ denominator' = Denominator(We_now, Wf_now)
    /\ log' = log \o InfeasibleLog(denominator')
    /\ ret' = ReturnNone
    /\ state' = "Diverged"
    /\ pc' = "caller"
    /\ evaluated' = evaluated + 1
    /\ UNCHANGED <<args, W0_kg, i, bound, W0_calc_kg, residual_kg, ref, others>>

\* Lines 112-146 with denominator > 0 and the residual test passing.
IterateConverged ==
    /\ InLoop
    /\ W0_N > 0
    /\ ~Infeasible(Denominator(We_now, Wf_now))
    /\ We_W0_ratio' = We_now
    /\ Wf_W0_ratio' = Wf_now
    /\ denominator' = Denominator(We_now, Wf_now)
    /\ W0_calc_kg' = W0_calc(args, denominator')
    /\ residual_kg' = Residual(W0_kg, W0_calc_kg')
    /\ ResidualTest(residual_kg', args.tolerance)
    /\ bound' = TRUE
    /\ log' = log \o RowLog(args, i, W0_kg, We_now, Wf_now, W0_calc_kg',
                            residual_kg')
                  \o (IF args.verbose
                      THEN <<[level |-> "info", msg |-> "converged",
                              iterations |-> i + 1]>>
                      ELSE <<>>)
    /\ ret' = ReturnDict(ConvergedDict(W0_calc_kg', We_now, Wf_now, i))
    /\ state' = "Converged"
    /\ pc' = "caller"
    /\ evaluated' = evaluated + 1
    /\ UNCHANGED <<args, W0_kg, i, ref, others>>

\* Lines 112-149 with denominator > 0 and the residual test failing.
IterateContinue ==
    /\ InLoop
    /\ W0_N > 0
    /\ ~Infeasible(Denominator(We_now, Wf_now))
    /\ We_W0_ratio' = We_now
    /\ Wf_W0_ratio' = Wf_now
    /\ denominator' = Denominator(We_now, Wf_now)
    /\ W0_calc_kg' = W0_calc(args, denominator')
    /\ residual_kg' = Residual(W0_kg, W0_calc_kg')
    /\ ~ResidualTest(residual_kg', args.tolerance)
    /\ bound' = TRUE
    /\ log' = log \o RowLog(args, i, W0_kg, We_now, Wf_now, W0_calc_kg',
                            residual_kg')
    /\ W0_kg' = W0_calc_kg'
    /\ i' = i + 1
    /\ evaluated' = evaluated + 1
    /\ UNCHANGED <<pc, args, ret, state, ref, others>>

LoopOver == pc = "loop" /\ i >= args.max_iterations

\* Line 153, and line 154 when residual_kg is bound.
ExhaustedLog ==
    IF args.verbose
    THEN <<[level |-> "warning", msg |-> "max_iterations",
            max_iterations |-> args.max_iterations]>>
         \o (IF bound
             THEN <<[level |-> "warning", msg |-> "residual",
                     residual_kg |-> residual_kg]>>
             ELSE <<>>)
    ELSE <<>>

\* A solver that treats the exhausted cap as a failure.
Exhausted_AsFailure ==
    /\ LoopOver
    /\ bound
    /\ log' = log \o ExhaustedLog
    /\ ret' = ReturnNone
    /\ state' = "ExhaustedIterations"
    /\ pc' = "caller"
    /\ UNCHANGED <<args, W0_kg, i, bound, We_W0_ratio, Wf_W0_ratio,
                   denominator, W0_calc_kg, residual_kg, evaluated, ref, others>>

\* Lines 151-165 after at least one pass through the loop body.
Exhausted ==
    /\ LoopOver
    /\ bound
    /\ log' = log \o ExhaustedLog
    /\ ret' = ReturnDict(ExhaustedDict(W0_calc_kg, We_W0_ratio, Wf_W0_ratio,
                                       args.max_iterations))
    /\ state' = "ExhaustedIterations"
    /\ pc' = "caller"
    /\ UNCHANGED <<args, W0_kg, i, bound, We_W0_ratio, Wf_W0_ratio,
                   denominator, W0_calc_kg, residual_kg, evaluated, ref, others>>

(***************************************************************************)
(* Lines 151-157 when the loop body never ran (max_iterations <= 0):       *)
(* residual_kg (line 154, verbose) or W0_calc_kg (line 156) is read        *)
(* before any assignment, and Python raises UnboundLocalError.             *)
(***************************************************************************)
ExhaustedUnbound ==
    /\ LoopOver
    /\ ~bound
    /\ log' = log \o ExhaustedLog
    /\ ret' = Raise("UnboundLocalError",
                    IF args.verbose THEN "residual_kg" ELSE "W0_calc_kg")
    /\ state' = "Raised"
    /\ pc' = "caller"
    /\ UNCHANGED <<args, W0_kg, i, bound, We_W0_ratio, Wf_W0_ratio,
                   denominator, W0_calc_kg, residual_kg, evaluated, ref, others>>

(***************************************************************************)
(* The caller keeps what a call handed back (as run_example keeps results, *)
(* lines 187-189): the arguments that decide the outcome, the terminal     *)
(* state and the values returned.                                          *)
(***************************************************************************)
Key(a) ==
    <<a.W_payload_kg, a.R_km, a.V_cmps, a.h_m, a.initial_W0_guess_kg,
      a.tolerance, a.max_iterations>>

Output(r) ==
    IF r.kind = "dict"
    THEN <<r.value.MTOW_kg, r.value.OEW_kg, r.value.W_fuel_kg,
           r.value.iterations>>
    ELSE <<>>

Remember ==
    /\ pc = "caller" /\ state # "Idle"
    /\ ref' = [key |-> Key(args), state |-> state, out |-> Output(ret),
               verbose |-> args.verbose]
    /\ ref' # ref
    /\ UNCHANGED <<pc, args, W0_kg, i, bound, We_W0_ratio, Wf_W0_ratio,
                   denominator, W0_calc_kg, residual_kg, ret, state, log,
                   evaluated, others>>

Next ==
    \/ \E a \in Arguments : Call(a)
    \/ IterateRaise
    \/ IterateInfeasible
    \/ IterateConverged
    \/ IterateContinue
    \/ Exhausted
    \/ ExhaustedUnbound

Spec == Init /\ [][Next]_vars

(***************************************************************************)
(* Repeated calls: the caller notes the outcome of any call it likes and   *)
(* goes on calling, with the same arguments or others.                     *)
(***************************************************************************)
RepeatArguments ==
    [W_payload_kg : Payloads, R_km : Ranges, V_cmps : Speeds, h_m : Altitudes,
     initial_W0_guess_kg : Guesses, tolerance : {0, tolerance_default},
     max_iterations : {0, 2, MaxCap + 3}, verbose : BOOLEAN]

NextRepeat ==
    \/ \E a \in RepeatArguments : Call(a)
    \/ IterateRaise
    \/ IterateInfeasible
    \/ IterateConverged
    \/ IterateContinue
    \/ Exhausted
    \/ ExhaustedUnbound
    \/ Remember

SpecRepeat == Init /\ [][NextRepeat]_vars

(***************************************************************************)
(* Properties of estimate_weights_iterative.                               *)
(***************************************************************************)
Returned == pc = "caller" /\ state # "Idle"
IsSolution == Returned /\ ret.kind = "dict"

\* C1: once a pass of the loop has observed a denominator <= 0 the call is
\* over: no further pass is evaluated, the solver is in Diverged, and what
\* it returned is None, which holds no MTOW, OEW or fuel value.
C1_InfeasibleStopsAtOnce ==
    (evaluated > 0 /\ denominator <= 0) =>
        /\ pc = "caller"
        /\ state = "Diverged"
        /\ ret = ReturnNone
        /\ evaluated = i + 1

\* The denominator turns non-positive in the second pass of a call.
C1_Witness ==
    /\ state = "Diverged" /\ evaluated = 2 /\ denominator < 0
    /\ ret = ReturnNone

\* C2: a call that evaluated max_iterations >= 1 passes, each with a positive
\* denominator and a failing residual test, returns a solution and not a
\* failure: the MTOW is the last W0_calc_kg, OEW and fuel are that MTOW times
\* the fractions of the last pass, and converged is False.
C2_ExhaustedReturnsLastEstimate ==
    (Returned /\ args.max_iterations >= 1
              /\ evaluated = args.max_iterations /\ i = evaluated) =>
        /\ state = "ExhaustedIterations"
        /\ ret.kind = "dict"
        /\ "converged" \in DOMAIN ret.value
        /\ ret.value.converged = FALSE
        /\ ret.value.MTOW_kg = W0_kg
        /\ ret.value.OEW_kg = FixMul(W0_kg, We_W0_ratio)
        /\ ret.value.W_fuel_kg = FixMul(W0_kg, Wf_W0_ratio)

\* The cap is reached with a positive tolerance that no residual met.
C2_Witness ==
    /\ state = "ExhaustedIterations" /\ args.tolerance > 0
    /\ evaluated = args.max_iterations /\ evaluated >= 2
    /\ ret.kind = "dict" /\ ret.value.MTOW_kg > 0

\* C3: every solution carries a converged flag, true exactly when the residual
\* test ended the solve and false exactly when the cap did.
C3_EverySolutionFlagged ==
    IsSolution =>
        /\ "converged" \in DOMAIN ret.value
        /\ ret.value.converged = (state = "Converged")

\* C4: for every cap >= 0 a call evaluates at most max_iterations passes and
\* ends in Converged, Diverged or ExhaustedIterations, the last whenever the
\* counter reaches the cap with neither test having fired.
C4_ThreeTerminalStates ==
    /\ evaluated <= args.max_iterations
    /\ Returned => state \in {"Converged", "Diverged", "ExhaustedIterations"}
    /\ (Returned /\ i = args.max_iterations) => state = "ExhaustedIterations"

\* C5 as claimed: the failure handed to the caller carries the denominator.
C5_FailureCarriesDenominator ==
    state = "Diverged" =>
        /\ "denominator" \in DOMAIN ret
        /\ ret.denominator = denominator

\* C5 as the code has it: the failure is None, which carries nothing; the
\* denominator is the value of the error record the logger received last.
C5_FailureIsNoneDenominatorLogged ==
    state = "Diverged" =>
        /\ ret = ReturnNone
        /\ Len(log) > 0
        /\ log[Len(log)] = [level |-> "error", msg |-> "denominator",
                            denominator |-> denominator]
        /\ denominator <= 0

\* The first pass of a call finds the denominator negative.
C5_Witness ==
    /\ state = "Diverged" /\ evaluated = 1 /\ denominator < 0
    /\ Len(log) > 0 /\ log[Len(log)].level = "error"

\* C6: every solution, converged or not, balances: MTOW = payload + OEW +
\* fuel, to the rounding of the three operations that formed them (two
\* hundredths of a kilogram), OEW and fuel being the MTOW times the fractions
\* of the last pass.
C6_WeightBalance ==
    IsSolution =>
        /\ ret.value.OEW_kg = FixMul(ret.value.MTOW_kg, We_W0_ratio)
        /\ ret.value.W_fuel_kg = FixMul(ret.value.MTOW_kg, Wf_W0_ratio)
        /\ Abs(ret.value.MTOW_kg - (args.W_payload_kg + ret.value.OEW_kg
                                    + ret.value.W_fuel_kg)) <= 2

\* A converged solution of a mission with payload, whose last guess differs
\* from the MTOW returned.
C6_Witness ==
    /\ IsSolution /\ state = "Converged" /\ args.W_payload_kg > 0
    /\ ret.value.MTOW_kg # W0_kg
    /\ ret.value.OEW_kg > 0 /\ ret.value.W_fuel_kg > 0

\* C8: the iterations field of a solution is the number of passes the call
\* evaluated: k, with 1 <= k <= max_iterations, when the residual test first
\* passed in the k-th pass, and max_iterations when the cap was reached.
C8_IterationsCountsPasses ==
    IsSolution =>
        /\ ret.value.iterations = evaluated
        /\ 1 <= evaluated /\ evaluated <= args.max_iterations
        /\ state = "ExhaustedIterations" =>
               ret.value.iterations = args.max_iterations

\* The residual test passes in the eighth pass.
C8_Witness ==
    /\ IsSolution /\ state = "Converged" /\ evaluated = 8
    /\ ret.value.iterations = 8

\* C9: with a tolerance <= 0 every call with max_iterations >= 1 whose
\* denominators stay positive evaluates exactly max_iterations passes and
\* returns, without raising, the last estimate tagged converged False.
C9_ZeroToleranceRunsToTheCap ==
    (Returned /\ state # "Diverged" /\ args.tolerance <= 0
              /\ args.max_iterations >= 1) =>
        /\ state = "ExhaustedIterations"
        /\ evaluated = args.max_iterations
        /\ ret.kind = "dict"
        /\ "converged" \in DOMAIN ret.value
        /\ ret.value.converged = FALSE
        /\ ret.value.MTOW_kg = W0_kg

(***************************************************************************)
(* C7.  The map contracts along the solve when every pass from the initial *)
(* guess on is feasible and each residual is at most half the one before;  *)
(* PassesNeeded is then the number of passes after which the residual is   *)
(* below the tolerance: the least n with |W0 - W0_calc| < tolerance *      *)
(* 2^(n-1) for the W0, W0_calc of the first pass.                          *)
(***************************************************************************)
RECURSIVE Halvings(_, _)
Halvings(r, t) == IF r < t THEN 1 ELSE 1 + Halvings(r, 2 * t)

PassesNeeded(a) ==
    Halvings(Abs(Residual(InitialW0(a), IterationMap(a, InitialW0(a)))),
             a.tolerance)

RECURSIVE ContractsFrom(_, _, _)
ContractsFrom(a, W0, n) ==
    \/ n = 0
    \/ /\ PassFeasible(a, W0)
       /\ LET next == IterationMap(a, W0)
          IN  /\ PassFeasible(a, next)
              /\ 2 * Abs(Residual(next, IterationMap(a, next)))
                     <= Abs(Residual(W0, next))
              /\ ContractsFrom(a, next, n - 1)

Contracting(a) ==
    /\ a.tolerance > 0
    /\ PassFeasible(a, InitialW0(a))
    /\ ContractsFrom(a, InitialW0(a), PassesNeeded(a))

C10_SameArgumentsSameOutcome ==
    (Returned /\ ref.key = Key(args)) =>
        /\ ref.state = state
        /\ ref.out = Output(ret)

\* Two calls with the same arguments, one verbose and one not, both converged
\* (so the second is not the call that was noted).
C10_Witness ==
    /\ Returned /\ ref.key = Key(args) /\ ref.verbose # args.verbose
    /\ state = "Converged" /\ ref.state = "Converged"
    /\ ref.out = Output(ret)

(***************************************************************************)
(* C11.  Calls that differ in the payload only: the caller notes one       *)
(* outcome and compares a later one with it.  The payloads are 0, 30 kg,   *)
(* and two pairs one kilogram apart, 1127/1128 kg and 6505/6506 kg; the    *)
(* tolerance is 60 kg.                                                     *)
(***************************************************************************)
PayloadSweep == {0, 3000, 112700, 112800, 650500, 650600}

SweepArguments ==
    [W_payload_kg : PayloadSweep, R_km : {7200}, V_cmps : Speeds,
     h_m : Altitudes, initial_W0_guess_kg : Guesses, tolerance : {6000},
     max_iterations : {0, 2, MaxCap + 3}, verbose : {FALSE}]

NextSweep ==
    \/ \E a \in SweepArguments : Call(a)
    \/ IterateRaise
    \/ IterateInfeasible
    \/ IterateConverged
    \/ IterateContinue
    \/ Exhausted
    \/ ExhaustedUnbound
    \/ Remember

SpecSweep == Init /\ [][NextSweep]_vars

\* The call noted and the call returned both converged, with the same
\* mission, guess, tolerance and cap, the noted one with the smaller payload.
ConvergedPair ==
    /\ Returned /\ state = "Converged" /\ ref.state = "Converged"
    /\ ref.key[1] <= args.W_payload_kg
    /\ \A k \in 2 .. 7 : ref.key[k] = Key(args)[k]

\* C11 as claimed: of two converged calls that differ in the payload only,
\* the one with the larger payload returns an MTOW that is not smaller.
C11_LargerPayloadLargerMTOW ==
    ConvergedPair => ref.out[1] <= ret.value.MTOW_kg

\* C11 as the code has it: each converged MTOW is within the tolerance of
\* the mission's fixed point, so the MTOW of the larger payload may be
\* smaller, by less than twice the tolerance.
C11_LargerPayloadWithinTolerance ==
    ConvergedPair => ref.out[1] < ret.value.MTOW_kg + 2 * args.tolerance

\* The larger payload converged one pass earlier, to a smaller MTOW.
C11_Witness ==
    /\ ConvergedPair /\ ref.key[1] < args.W_payload_kg
    /\ ref.out[4] = evaluated + 1
    /\ ref.out[1] > ret.value.MTOW_kg

(***************************************************************************)
(* Direct calls of the formulas.  A caller outside a solve calls one of    *)
(* the functions without state; call keeps the function, its arguments and *)
(* what came back.                                                         *)
(***************************************************************************)
Return(v) == [kind |-> "float", value |-> v]
ReturnComplex(re, im) == [kind |-> "complex", re |-> re, im |-> im]

\* cos and sin of pi * 0.070: a negative base to the power C is the power of
\* its magnitude turned by the angle pi * C.
CosPiC == 97591676
SinPiC == 21814324

(***************************************************************************)
(* Line 33 for any W0_N, in hundredths of a newton: a float for a positive *)
(* base, ZeroDivisionError for 0.0 ** -0.07, and for a negative base the   *)
(* complex number that Python's ** returns.                                *)
(***************************************************************************)
EmptyWeightFractionOutcome(W0_N_in) ==
    IF W0_N_in > 0 THEN Return(calculate_empty_weight_fraction(W0_N_in))
    ELSE IF W0_N_in = 0 THEN Raise("ZeroDivisionError", "W0_N")
    ELSE LET magnitude == calculate_empty_weight_fraction(-W0_N_in)
         IN  ReturnComplex(FixMul(magnitude, CosPiC),
                           - FixMul(magnitude, SinPiC))

\* Forces from -392400 N to 392400 N (the weight of 40000 kg), zero included.
Forces == {k * 1962000 : k \in -20 .. 20}

CallEmptyWeightFraction(W0_N_in) ==
    /\ pc = "caller"
    /\ call' = [fn |-> "calculate_empty_weight_fraction", in |-> W0_N_in,
                out |-> EmptyWeightFractionOutcome(W0_N_in)]
    /\ UNCHANGED solver
    /\ UNCHANGED <<th, run>>

\* C12: every call of calculate_empty_weight_fraction with a force <= 0
\* raises; none returns a value.
C12_NonPositiveForceRaises ==
    (call.fn = "calculate_empty_weight_fraction" /\ call.in <= 0) =>
        call.out.kind = "raise"

(***************************************************************************)
(* Concurrent solves.  The caller first runs one call alone (the actions   *)
(* above), then starts two threads that each call                          *)
(* estimate_weights_iterative once; the scheduler interleaves their        *)
(* passes.  Every name the function assigns is a local of the call, th[t]; *)
(* the threads share the module's logger only, log, whose records carry    *)
(* the thread that wrote them.                                             *)
(***************************************************************************)
\* Lines 102-104 in thread t.
StartLocals(a) ==
    [IdleLocals EXCEPT !.pc = "loop", !.args = a, !.W0_kg = InitialW0(a),
                       !.state = "Iterating"]

\* Line 112: the guess a pass of thread t reads.
GuessRead_Global(t) == th[1].W0_kg
GuessRead(t) == th[t].W0_kg

\* Lines 110-165: the locals l after the next pass, read from the guess W0,
\* or after the code that follows the loop.
PassOf(l, W0) ==
    LET a == l.args
    IN  IF l.i >= a.max_iterations
        THEN IF l.bound
             THEN [l EXCEPT !.pc = "done", !.state = "ExhaustedIterations",
                            !.ret = ReturnDict(ExhaustedDict(l.W0_calc_kg,
                                       l.We_W0_ratio, l.Wf_W0_ratio,
                                       a.max_iterations))]
             ELSE [l EXCEPT !.pc = "done", !.state = "Raised",
                            !.ret = Raise("UnboundLocalError",
                                          IF a.verbose THEN "residual_kg"
                                          ELSE "W0_calc_kg")]
        ELSE IF Force(W0) <= 0
        THEN [l EXCEPT !.pc = "done", !.state = "Raised",
                       !.ret = IF Force(W0) = 0
                               THEN Raise("ZeroDivisionError", "W0_N")
                               ELSE Raise("TypeError", "denominator")]
        ELSE LET We  == We_at(W0)
                 Wf  == Wf_at(a, W0)
                 den == Denominator(We, Wf)
                 m   == [l EXCEPT !.We_W0_ratio = We, !.Wf_W0_ratio = Wf,
                                  !.denominator = den]
             IN  IF Infeasible(den)
                 THEN [m EXCEPT !.pc = "done", !.state = "Diverged",
                                !.ret = ReturnNone]
                 ELSE LET calc == W0_calc(a, den)
                          res  == Residual(W0, calc)
                          n    == [m EXCEPT !.W0_calc_kg = calc,
                                            !.residual_kg = res,
                                            !.bound = TRUE]
                      IN  IF ResidualTest(res, a.tolerance)
                          THEN [n EXCEPT !.pc = "done",
                                         !.state = "Converged",
                                         !.ret = ReturnDict(ConvergedDict(
                                                     calc, We, Wf, l.i))]
                          ELSE [n EXCEPT !.W0_kg = calc, !.i = l.i + 1]

\* Lines 122, 131, 136, 153-154: what that step hands to the logger.
PassLog(l, n) ==
    IF n.state = "Diverged" THEN InfeasibleLog(n.denominator)
    ELSE IF n.state = "Raised" \/ ~l.args.verbose THEN <<>>
    ELSE IF n.state = "ExhaustedIterations"
    THEN <<[level |-> "warning", msg |-> "max_iterations",
            max_iterations |-> l.args.max_iterations],
           [level |-> "warning", msg |-> "residual",
            residual_kg |-> l.residual_kg]>>
    ELSE RowLog(l.args, l.i, l.W0_kg, n.We_W0_ratio, n.Wf_W0_ratio,
                n.W0_calc_kg, n.residual_kg)
         \o (IF n.state = "Converged"
             THEN <<[level |-> "info", msg |-> "converged",
                     iterations |-> l.i + 1]>>
             ELSE <<>>)

ByThread(t, records) ==
    [k \in DOMAIN records |-> [thread |-> t, record |-> records[k]]]

\* The arguments of the calls: a mission that converges, one that stops at
\* the cap, one without a solution, one without payload, one with cap 0.
ConcurrentArguments ==
    {a \in [W_payload_kg : {0, 3000, 112800}, R_km : {7200}, V_cmps : Speeds,
            h_m : Altitudes, initial_W0_guess_kg : Guesses,
            tolerance : {6000}, max_iterations : {0, 2, MaxCap + 3},
            verbose : BOOLEAN] :
        /\ a.max_iterations < MaxCap => a.W_payload_kg = 112800
        /\ a.verbose = (a.W_payload_kg = 112800 /\ a.max_iterations > 0)}

AllIdle == \A t \in Threads : th[t].pc = "idle"

\* The call that runs alone.
AloneCall(a) == AllIdle /\ Call(a)

\* Thread t calls estimate_weights_iterative: lines 102-108.
ThreadCall(t, a) ==
    /\ Returned
    /\ th[t].pc = "idle"
    /\ th' = [th EXCEPT ![t] = StartLocals(a)]
    /\ log' = log \o ByThread(t, HeaderLog(a))
    /\ UNCHANGED <<pc, args, W0_kg, i, bound, We_W0_ratio, Wf_W0_ratio,
                   denominator, W0_calc_kg, residual_kg, ret, state,
                   evaluated, ref, call, run>>

\* Thread t runs a pass of the loop, or the code after it.
ThreadPass(t) ==
    /\ th[t].pc = "loop"
    /\ th' = [th EXCEPT ![t] = PassOf(th[t], GuessRead(t))]
    /\ log' = log \o ByThread(t, PassLog(th[t], th'[t]))
    /\ UNCHANGED <<pc, args, W0_kg, i, bound, We_W0_ratio, Wf_W0_ratio,
                   denominator, W0_calc_kg, residual_kg, ret, state,
                   evaluated, ref, call, run>>

NextConcurrent ==
    \/ \E a \in ConcurrentArguments : AloneCall(a)
    \/ IterateRaise
    \/ IterateInfeasible
    \/ IterateConverged
    \/ IterateContinue
    \/ Exhausted
    \/ ExhaustedUnbound
    \/ \E t \in Threads, a \in ConcurrentArguments : ThreadCall(t, a)
    \/ \E t \in Threads : ThreadPass(t)

SpecConcurrent == Init /\ [][NextConcurrent]_vars

\* C13: a thread's call that has returned, whatever the other thread did in
\* between, returned what the call with the same arguments returned alone:
\* the same terminal state and the same value, None or exception.
C13_InterleavedAsAlone ==
    \A t \in Threads :
        (th[t].pc = "done" /\ Returned /\ th[t].args = args) =>
            /\ th[t].state = state
            /\ th[t].ret = ret

\* Both threads have returned, from calls with different payloads; thread 1
\* made the call that ran alone and converged, and the logger holds a
\* record of thread 2 between two records of thread 1.
C13_Witness ==
    /\ Returned /\ state = "Converged"
    /\ th[1].pc = "done" /\ th[2].pc = "done"
    /\ th[1].args = args
    /\ th[2].args.W_payload_kg # args.W_payload_kg
    /\ th[1].ret = ret /\ th[2].state = "Diverged"
    /\ \E j, k, n \in DOMAIN log :
           /\ j < k /\ k < n
           /\ "thread" \in DOMAIN log[j] /\ log[j].thread = 1
           /\ "thread" \in DOMAIN log[k] /\ log[k].thread = 2
           /\ "thread" \in DOMAIN log[n] /\ log[n].thread = 1

(***************************************************************************)
(* src/calculo_distancia_pista.py.  Units: masses in hundredths of a       *)
(* kilogram, forces in hundredths of a newton, speeds in cm/s and their    *)
(* squares in 1e-4 m2/s2, accelerations in 1e-4 m/s2, distances in cm,     *)
(* wing area in tenths of a square metre, air density in g/m3, times in    *)
(* tenths of a second; coefficients, factors and sines are fixed point,    *)
(* angles in radians fixed point, in degrees with six decimals.            *)
(***************************************************************************)
\* float("inf"): larger than every finite distance here, absorbing under +.
Inf == 2147483647
Finite(x) == x # Inf
Plus(x, y) == IF x = Inf \/ y = Inf THEN Inf ELSE x + y

Sign(x) == IF x < 0 THEN -1 ELSE 1

\* a / den with n decimal digits, for a >= 0 and 0 < den < 2^31 / 10.
DivDigits(a, den, n) == (a \div den) * 10 ^ n + LongDiv(a % den, den, n)

\* a / den as a fixed-point number, for any sign of a.
FixDivSigned(a, den) == Sign(a) * FixDiv(Abs(a), den)

\* math.sqrt of a non-negative integer, rounded down.
RECURSIVE SqrtBetween(_, _, _)
SqrtBetween(x, lo, hi) ==
    IF lo >= hi THEN lo
    ELSE LET mid == (lo + hi + 1) \div 2
         IN  IF mid * mid <= x THEN SqrtBetween(x, mid, hi)
             ELSE SqrtBetween(x, lo, mid - 1)
Sqrt(x) == SqrtBetween(x, 0, 46340)

\* math.sqrt of a fixed-point number in [0, 1].
FixSqrt(x) == Sqrt(x) * Limb

\* math.asin of a fixed-point sine in [0, 1]: the power series up to 1/2,
\* and pi/2 - 2 asin(sqrt((1 - x) / 2)) above.
HalfPi == 157079633
RECURSIVE AsinSeries(_, _, _)
AsinSeries(u, x2, n) ==
    IF n > 12 THEN 0
    ELSE u \div (2 * n + 1)
         + AsinSeries((FixMul(u, x2) * (2 * n + 1)) \div (2 * n + 2), x2, n + 1)
AsinSmall(x) == AsinSeries(x, FixMul(x, x), 0)
Asin(x) ==
    IF 2 * x <= Scale THEN AsinSmall(x)
    ELSE HalfPi - 2 * AsinSmall(FixSqrt((Scale - x) \div 2))

\* h / math.tan(math.asin(x)) for a sine 0 < x <= 1, which is
\* h * sqrt(1 - x^2) / x; the tangent of such an angle is positive, so the
\* else of line 126 is never taken.
DistanceToHeight(h, x) == DivDigits(h * Sqrt(Scale - FixMul(x, x)), x, 4)

\* math.degrees: 180 / pi = 57.29578; the result has six decimals.
DegreesPerRadian_e2 == 57295780
Degrees(gamma) == FixMul(gamma, DegreesPerRadian_e2)

\* 0.5 * rho * V**2 * S, a force (lines 78, 81, 110, 217, 218).
DynamicForce(rho0_kgm3, V, S_m2) ==
    MulDiv(MulDiv(V * V, rho0_kgm3, 1000), S_m2, 1000) \div 2

\* CD0 + K * CL**2 (lines 75, 109, 214).
DragPolar(CD0, K, CL) == CD0 + FixMul(K, FixMul(CL, CL))

\* sqrt((2 * W_N) / (rho * S * CLmax)) (lines 62, 192).
StallSpeed(W_N_in, rho0_kgm3, S_m2, CLmax) ==
    Sqrt(DivDigits(2 * W_N_in, FixMul(rho0_kgm3 * S_m2, CLmax), 6))

\* (g / W_N) * F for a net force F (lines 84, 222).
Acceleration(F, W_N_in) ==
    Sign(F) * MulDiv(FixDiv(Abs(F), W_N_in), G100, 10 ^ 6)

(***************************************************************************)
(* estimate_takeoff_distance (lines 17-141).                               *)
(***************************************************************************)
\* Defaults of lines 22-31.
rho0_kgm3_default == 1225
mu_roll_default == 3000000
CL_ground_default == 10000000
CD0_takeoff_default == 4800000
K_default == 4900000
Vlof_factor_default == 115000000
V_avg_factor_default == 70000000
t_rot_s_default == 20
h_obs_m_takeoff_default == 1070

Warning(msg) == [level |-> "warning", msg |-> msg]

\* Lines 89-98: the result when a_avg <= 0.
TakeoffNoGoDict_NoAngle(Vs_TO, Vlof, a_avg) ==
    [S_ground_run_m |-> Inf, S_rotation_m |-> 0, S_airborne_m |-> 0,
     S_total_takeoff_m |-> Inf, Vs_TO_mps |-> Vs_TO, Vlof_mps |-> Vlof,
     a_avg_ms2 |-> a_avg]
TakeoffNoGoDict(Vs_TO, Vlof, a_avg) ==
    [S_ground_run_m |-> Inf, S_rotation_m |-> 0, S_airborne_m |-> 0,
     S_total_takeoff_m |-> Inf, Vs_TO_mps |-> Vs_TO, Vlof_mps |-> Vlof,
     a_avg_ms2 |-> a_avg, gamma_climb_deg |-> 0]

\* Lines 116-126 for sin_gamma_cl <= 1: S_air and gamma_cl.
ClimbSegment_AngleKept(sin_gamma_cl, h_obs_m) ==
    IF sin_gamma_cl <= 0
    THEN [S_air |-> Inf, gamma_cl |-> Asin(Abs(sin_gamma_cl)),
          log |-> <<Warning("excess thrust")>>]
    ELSE [S_air |-> DistanceToHeight(h_obs_m, sin_gamma_cl),
          gamma_cl |-> Asin(sin_gamma_cl), log |-> <<>>]
ClimbSegment(sin_gamma_cl, h_obs_m) ==
    IF sin_gamma_cl <= 0
    THEN [S_air |-> Inf, gamma_cl |-> 0, log |-> <<Warning("excess thrust")>>]
    ELSE [S_air |-> DistanceToHeight(h_obs_m, sin_gamma_cl),
          gamma_cl |-> Asin(sin_gamma_cl), log |-> <<>>]

\* Line 129.
TakeoffTotal_NoRotation(Sg, Sr, S_air) == Plus(Sg, S_air)
TakeoffTotal(Sg, Sr, S_air) == Plus(Plus(Sg, Sr), S_air)

\* Lines 59-84, where they raise nothing: the speeds and a_avg.
TakeoffGroundRoll(p) ==
    LET W_N_to == Force(p.W_kg)                                  \* line 59
        Vs_TO == StallSpeed(W_N_to, p.rho0_kgm3, p.S_m2, p.CLmax_TO)
        Vlof  == FixMul(Vs_TO, p.Vlof_factor)                    \* line 65
        V_avg == FixMul(Vlof, p.V_avg_factor)                    \* line 68
        T_avg == p.T_N_static * Centi                            \* line 71
        CD_avg_g == DragPolar(p.CD0_takeoff, p.K, p.CL_ground)   \* line 75
        q_avg == DynamicForce(p.rho0_kgm3, V_avg, p.S_m2)
        L_avg_g == FixMul(q_avg, p.CL_ground)                    \* line 78
        D_avg_g == FixMul(q_avg, CD_avg_g)                       \* line 81
    IN  [Vs_TO |-> Vs_TO, Vlof |-> Vlof,
         a_avg |-> Acceleration(T_avg - D_avg_g
                       - FixMul(p.mu_roll, W_N_to - L_avg_g), W_N_to)]

\* Lines 108-113: sin_gamma_cl, the climb excess thrust over the weight.
TakeoffClimbSine(p) ==
    LET W_N_to == Force(p.W_kg)
        Vlof == TakeoffGroundRoll(p).Vlof
        q_lof == DynamicForce(p.rho0_kgm3, Vlof, p.S_m2)
        CL_free == FixDiv(W_N_to, q_lof)
        CL_climb == IF CL_free < p.CLmax_TO THEN CL_free
                    ELSE p.CLmax_TO                              \* line 108
        CD_climb == DragPolar(p.CD0_takeoff, p.K, CL_climb)      \* line 109
        D_climb == FixMul(q_lof, CD_climb)                       \* line 110
    IN  FixDivSigned(p.T_N_static * Centi - D_climb, W_N_to)     \* line 113

\* What a call estimate_takeoff_distance(**p) comes back with: the value
\* returned or the exception raised, and the warnings logged.
estimate_takeoff_distance(p) ==
    IF FixMul(p.rho0_kgm3 * p.S_m2, p.CLmax_TO) = 0              \* line 62
    THEN [out |-> Raise("ZeroDivisionError", "Vs_TO"), log |-> <<>>]
    ELSE IF Force(p.W_kg) = 0                                    \* line 84
    THEN [out |-> Raise("ZeroDivisionError", "a_avg"), log |-> <<>>]
    ELSE
    LET ground == TakeoffGroundRoll(p)
        Vlof == ground.Vlof
        a_avg == ground.a_avg
    IN  IF a_avg <= 0                                            \* line 87
        THEN [out |-> ReturnDict(TakeoffNoGoDict(ground.Vs_TO, Vlof, a_avg)),
              log |-> <<Warning("acceleration")>>]
        ELSE
        LET Sg == MulDiv(Vlof * Vlof, Centi, 2 * a_avg)          \* line 101
            Sr == (Vlof * p.t_rot_s) \div 10                     \* line 104
            sin_gamma_cl == TakeoffClimbSine(p)
        IN  IF sin_gamma_cl > Scale                              \* line 122
            THEN [out |-> Raise("ValueError", "gamma_cl"), log |-> <<>>]
            ELSE
            LET climb == ClimbSegment(sin_gamma_cl, p.h_obs_m)
            IN  [out |-> ReturnDict(
                    [Vs_TO_mps |-> ground.Vs_TO, Vlof_mps |-> Vlof,
                     a_avg_ms2 |-> a_avg,
                     gamma_climb_deg |-> Degrees(climb.gamma_cl),
                     S_ground_run_m |-> Sg, S_rotation_m |-> Sr,
                     S_airborne_m |-> climb.S_air,
                     S_total_takeoff_m |->
                         TakeoffTotal(Sg, Sr, climb.S_air)]),
                 log |-> climb.log]

\* The arguments tried: weights 0, 1000 kg, the reference solve's MTOW and
\* run_example's 41557.66 kg; thrusts from 0 to the 136880 N of run_example;
\* rotation times 0 and 2 s; obstacle heights 0 and 10.7 m.
TakeoffArguments ==
    [W_kg : {0, 100000, 1718032, 4155766}, S_m2 : {1137},
     T_N_static : {0, 10000, 30000, 136880}, CLmax_TO : {210000000},
     rho0_kgm3 : {rho0_kgm3_default}, mu_roll : {mu_roll_default},
     CL_ground : {CL_ground_default}, CD0_takeoff : {CD0_takeoff_default},
     K : {K_default}, Vlof_factor : {Vlof_factor_default},
     V_avg_factor : {V_avg_factor_default},
     t_rot_s : {0, t_rot_s_default}, h_obs_m : {0, h_obs_m_takeoff_default}]

CallTakeoff(p) ==
    /\ pc = "caller"
    /\ call' = [fn |-> "estimate_takeoff_distance", in |-> p,
                out |-> estimate_takeoff_distance(p).out,
                log |-> estimate_takeoff_distance(p).log]
    /\ UNCHANGED solver
    /\ UNCHANGED <<th, run>>

(***************************************************************************)
(* estimate_landing_distance (lines 144-245).  gamma_app_deg is in tenths  *)
(* of a degree.                                                            *)
(***************************************************************************)
\* Defaults of lines 150-160 and the 0.7 of line 210.
mu_brake_default == 40000000
CD0_landing_default == 6300000
CL_land_ground_default == 10000000
Vapp_factor_default == 130000000
Vtd_factor_default == 115000000
gamma_app_deg_default == 30
h_obs_m_landing_default == 1520
h_flare_m_default == 1000
t_flare_s_default == 30
V_avg_land_factor == 70000000

\* math.radians of tenths of a degree: pi / 1800.
RadiansPerTenthDegree == 174533
Radians(tenths) == tenths * RadiansPerTenthDegree

\* math.tan of an angle in [0, pi/2): sin / cos by their power series.
RECURSIVE TrigSeries(_, _, _)
TrigSeries(term, x2, k) ==
    IF k > 14 THEN 0
    ELSE term + TrigSeries(- (FixMul(term, x2) \div ((k + 1) * (k + 2))),
                           x2, k + 2)
Tan(x) == FixDivSigned(TrigSeries(x, FixMul(x, x), 1),
                       TrigSeries(Scale, FixMul(x, x), 0))

\* Lines 189-207, where they raise nothing: the speeds, Sa and Sf.
LandingApproach(p) ==
    LET Vs_land == StallSpeed(Force(p.W_land_kg), p.rho0_kgm3, p.S_m2,
                              p.CLmax_land)                      \* line 192
        Vapp == FixMul(Vs_land, p.Vapp_factor)                   \* line 195
    IN  [Vs_land |-> Vs_land, Vapp |-> Vapp,
         Vtd |-> FixMul(Vs_land, p.Vtd_factor),                  \* line 198
         Sa |-> FixDivSigned(p.h_obs_m - p.h_flare_m,
                             Tan(Radians(p.gamma_app_deg))),     \* line 204
         Sf |-> (Vapp * p.t_flare_s) \div 10]                    \* line 207

\* Lines 210-222: a_avg_land.
LandingAcceleration(p) ==
    LET W_land_N == Force(p.W_land_kg)
        V_avg_land == FixMul(V_avg_land_factor, LandingApproach(p).Vtd)
        CD_avg_land_g == DragPolar(p.CD0_landing, p.K, p.CL_land_ground)
        q_avg == DynamicForce(p.rho0_kgm3, V_avg_land, p.S_m2)
        L_avg_land_g == FixMul(q_avg, p.CL_land_ground)          \* line 217
        D_avg_land_g == FixMul(q_avg, CD_avg_land_g)             \* line 218
    IN  Acceleration(p.T_rev_N * Centi - D_avg_land_g
                     - FixMul(p.mu_brake, W_land_N - L_avg_land_g),
                     W_land_N)                                   \* line 222

\* Lines 225-230: Sg_land.
LandingGroundRoll(a_avg_land, Vtd) ==
    IF a_avg_land >= 0 THEN Inf
    ELSE MulDiv(Vtd * Vtd, Centi, 2 * (- a_avg_land))

\* Lines 233-245.
LandingDict_EarlyReturn(approach, a_avg_land, Sg_land) ==
    [Vs_land_mps |-> approach.Vs_land, Vapp_mps |-> approach.Vapp,
     Vtd_mps |-> approach.Vtd, a_avg_land_ms2 |-> a_avg_land,
     S_approach_m |-> IF Sg_land = Inf THEN 0 ELSE approach.Sa,
     S_flare_m |-> IF Sg_land = Inf THEN 0 ELSE approach.Sf,
     S_ground_roll_m |-> Sg_land,
     S_total_landing_m |-> Plus(Plus(approach.Sa, approach.Sf), Sg_land)]
LandingDict(approach, a_avg_land, Sg_land) ==
    [Vs_land_mps |-> approach.Vs_land, Vapp_mps |-> approach.Vapp,
     Vtd_mps |-> approach.Vtd, a_avg_land_ms2 |-> a_avg_land,
     S_approach_m |-> approach.Sa, S_flare_m |-> approach.Sf,
     S_ground_roll_m |-> Sg_land,
     S_total_landing_m |-> Plus(Plus(approach.Sa, approach.Sf), Sg_land)]

\* What a call estimate_landing_distance(**p) comes back with.
estimate_landing_distance(p) ==
    IF FixMul(p.rho0_kgm3 * p.S_m2, p.CLmax_land) = 0            \* line 192
    THEN [out |-> Raise("ZeroDivisionError", "Vs_land"), log |-> <<>>]
    ELSE IF Tan(Radians(p.gamma_app_deg)) = 0                    \* line 204
    THEN [out |-> Raise("ZeroDivisionError", "Sa"), log |-> <<>>]
    ELSE IF Force(p.W_land_kg) = 0                               \* line 222
    THEN [out |-> Raise("ZeroDivisionError", "a_avg_land"), log |-> <<>>]
    ELSE
    LET approach == LandingApproach(p)
        a_avg_land == LandingAcceleration(p)
        Sg_land == LandingGroundRoll(a_avg_land, approach.Vtd)
    IN  [out |-> ReturnDict(LandingDict(approach, a_avg_land, Sg_land)),
         log |-> IF a_avg_land >= 0 THEN <<Warning("deceleration")>>
                 ELSE <<>>]

\* The arguments tried: weights 0, 65 % of the reference solve's MTOW and
\* run_example's 26389 kg; reverse thrust from -20000 N to a forward
\* 200000 N; no brakes, drag or lift on the ground at all, or the defaults;
\* approach angles 0 and 3 degrees.
LandingArguments ==
    {p \in [W_land_kg : {0, 1116721, 2638900}, S_m2 : {1137},
            CLmax_land : {260000000}, rho0_kgm3 : {rho0_kgm3_default},
            mu_brake : {0, mu_brake_default},
            CD0_landing : {0, CD0_landing_default}, K : {K_default},
            CL_land_ground : {0, CL_land_ground_default},
            Vapp_factor : {Vapp_factor_default},
            Vtd_factor : {Vtd_factor_default},
            gamma_app_deg : {0, gamma_app_deg_default},
            h_obs_m : {h_obs_m_landing_default},
            h_flare_m : {h_flare_m_default}, t_flare_s : {t_flare_s_default},
            T_rev_N : {-20000, 0, 200000}] :
        /\ (p.mu_brake = 0) = (p.CD0_landing = 0)
        /\ (p.mu_brake = 0) = (p.CL_land_ground = 0)}

CallLanding(p) ==
    /\ pc = "caller"
    /\ call' = [fn |-> "estimate_landing_distance", in |-> p,
                out |-> estimate_landing_distance(p).out,
                log |-> estimate_landing_distance(p).log]
    /\ UNCHANGED solver
    /\ UNCHANGED <<th, run>>

(***************************************************************************)
(* src/payload_range.py.  Masses in centi-kg, the density in g/m^3, the    *)
(* wing area in tenths of m^2, the speed in cm/s, C_D0 and k_2 fixed       *)
(* point, TSFC in 1e-9 kg/(N s), L/D in 1e-4, ranges in hundredths of a    *)
(* kilometre.                                                              *)
(***************************************************************************)
\* Lines 43-51.  CL = 2 W_N / (rho S V^2); the division is done on the
\* halves, W_N / (rho S V^2 / 2), which keeps the divisor in range.
calculate_L_D(W_kg, rho_kgm3, S_m2, V_mps, C_D0, k_2) ==
    LET q   == DynamicForce(rho_kgm3, V_mps, S_m2)
        CL  == FixDiv(Force(W_kg), q)
        sum == FixDiv(C_D0, CL) + FixMul(k_2, CL)
    IN  IF q = 0 THEN Raise("ZeroDivisionError", "float division by zero")
        ELSE IF CL = 0 THEN Return(0)
        ELSE IF sum = 0
             THEN Raise("ZeroDivisionError", "float division by zero")
        ELSE Return(DivDigits(Scale, sum, 4))

\* The guard of line 70, with which the function returns 0 at line 71.
RangeGuard_EndOnly(W_start_kg, W_end_kg) == W_end_kg <= 0

RangeGuard(W_start_kg, W_end_kg) ==
    W_end_kg <= 0 \/ W_start_kg <= W_end_kg

\* math.log(W_start_kg / W_end_kg) of line 77, for W_start > W_end > 0.
LogWeightRatio(W_start_kg, W_end_kg) ==
    Ln(FixDiv(W_start_kg, W_end_kg)) - Ln(Scale)

\* Line 77 and the division by 1000 of line 80:
\* (V * L_D) / (g * TSFC) * ln(W_start / W_end) / 1000.
BreguetRange(W_start_kg, W_end_kg, L_D_avg, V_mps, TSFC_kgNs) ==
    Sign(L_D_avg) * Sign(V_mps) * Sign(TSFC_kgNs) *
    FixMul(DivDigits(MulDiv(Abs(V_mps), Abs(L_D_avg), Limb),
                     G100 * Abs(TSFC_kgNs), 8),
           LogWeightRatio(W_start_kg, W_end_kg))

\* Lines 54-80.
calculate_range_km(W_start_kg, W_end_kg, L_D_avg, V_mps, TSFC_kgNs) ==
    IF RangeGuard(W_start_kg, W_end_kg) THEN Return(0)
    ELSE IF G100 * TSFC_kgNs = 0
         THEN Raise("ZeroDivisionError", "float division by zero")
    ELSE Return(BreguetRange(W_start_kg, W_end_kg, L_D_avg, V_mps,
                             TSFC_kgNs))

\* The arguments tried: the weights of point B of run_example, equal
\* weights, start below end, end weights 0 and below 0; L/D 0, 16 and -16;
\* the cruise speed and 0; TSFC 0, 2.0028e-5 and -2.0e-5.
RangeArguments ==
    [W_start_kg : {2488124, 4155766},
     W_end_kg : {-500, 0, 2488124, 4155766},
     L_D_avg : {-160000, 0, 160000}, V_mps : {0, 25056},
     TSFC_kgNs : {-20000, 0, 20028}]

CallRange(p) ==
    /\ pc = "caller"
    /\ call' = [fn |-> "calculate_range_km", in |-> p,
                out |-> calculate_range_km(p.W_start_kg, p.W_end_kg,
                                          p.L_D_avg, p.V_mps, p.TSFC_kgNs)]
    /\ UNCHANGED solver
    /\ UNCHANGED <<th, run>>

Min(a, b) == IF a < b THEN a ELSE b
Max(a, b) == IF a > b THEN a ELSE b

\* One segment of calculate_payload_range_points: L/D at the average
\* weight, then the range between the two weights (lines 127-133, 145-151,
\* 161-167).  An exception of calculate_L_D leaves the function.
SegmentRange(W_start, W_end, p) ==
    LET L_D_avg == calculate_L_D((W_start + W_end) \div 2, p.rho_kgm3,
                                 p.S_m2, p.V_mps, p.C_D0, p.k_2)
    IN  IF L_D_avg.kind = "raise" THEN L_D_avg
        ELSE calculate_range_km(W_start, W_end, L_D_avg.value, p.V_mps,
                                p.TSFC_kgNs)

\* Lines 170-175.
PointsDict_ARangeOfB(Range_AB_km, Range_C_km, Range_D_km, Payload_AB_kg, Payload_C_kg) ==
    [A |-> [range_km |-> Range_AB_km, payload_kg |-> Payload_AB_kg],
     B |-> [range_km |-> Range_AB_km, payload_kg |-> Payload_AB_kg],
     C |-> [range_km |-> Range_C_km, payload_kg |-> Payload_C_kg],
     D |-> [range_km |-> Range_D_km, payload_kg |-> 0]]

PointsDict(Range_AB_km, Range_C_km, Range_D_km, Payload_AB_kg, Payload_C_kg) ==
    [A |-> [range_km |-> 0, payload_kg |-> Payload_AB_kg],
     B |-> [range_km |-> Range_AB_km, payload_kg |-> Payload_AB_kg],
     C |-> [range_km |-> Range_C_km, payload_kg |-> Payload_C_kg],
     D |-> [range_km |-> Range_D_km, payload_kg |-> 0]]

\* Lines 83-175.
calculate_payload_range_points(p) ==
    LET W_fuel_design_kg == Min(p.MTOW_kg - p.OEW_kg - p.W_payload_max_kg,
                                p.W_fuel_max_kg)
        W_start_AB   == p.OEW_kg + p.W_payload_max_kg + W_fuel_design_kg
        W_end_AB     == p.OEW_kg + p.W_payload_max_kg
        Range_AB_km  == SegmentRange(W_start_AB, W_end_AB, p)
        W_start_C    == p.MTOW_kg
        Payload_C_kg == Max(p.MTOW_kg - p.OEW_kg - p.W_fuel_max_kg, 0)
        W_end_C      == p.OEW_kg + Payload_C_kg
        Range_C_km   == SegmentRange(W_start_C, W_end_C, p)
        W_start_D    == Min(p.OEW_kg + p.W_fuel_max_kg, p.MTOW_kg)
        W_end_D      == p.OEW_kg
        Range_D_km   == SegmentRange(W_start_D, W_end_D, p)
    IN  IF Range_AB_km.kind = "raise" THEN Range_AB_km
        ELSE IF Range_C_km.kind = "raise" THEN Range_C_km
        ELSE IF Range_D_km.kind = "raise" THEN Range_D_km
        ELSE ReturnDict(PointsDict(Range_AB_km.value, Range_C_km.value,
                                   Range_D_km.value, p.W_payload_max_kg,
                                   Payload_C_kg))

\* The values of run_example (lines 99-110).
OEW_kg_example == 2206924
W_payload_max_kg_example == 281200
W_fuel_max_kg_example == 1873300
MTOW_kg_example == 4155766
rho_kgm3_example == 301
S_m2_example == 1137
V_mps_example == 25056
C_D0_example == 1800000
k_2_example == 4900000
TSFC_kgNs_example == 20028

\* The arguments tried: empty weights 0, the reference solve's and
\* run_example's; payload capacities 0 and 2812 kg; fuel capacities 0,
\* 5000 and 18733 kg; MTOW 0, the reference solve's and run_example's; the
\* cruise condition of run_example, and, for run_example's empty weight and
\* payload capacity, speed 0 and TSFC 0 as well.
PointsArguments ==
    {p \in [OEW_kg : {0, 827189, OEW_kg_example},
            W_payload_max_kg : {0, W_payload_max_kg_example},
            W_fuel_max_kg : {0, 500000, W_fuel_max_kg_example},
            MTOW_kg : {0, 1718033, MTOW_kg_example},
            rho_kgm3 : {rho_kgm3_example}, S_m2 : {S_m2_example},
            V_mps : {0, V_mps_example}, C_D0 : {C_D0_example},
            k_2 : {k_2_example}, TSFC_kgNs : {0, TSFC_kgNs_example}] :
        (p.V_mps = 0 \/ p.TSFC_kgNs = 0) =>
            /\ p.OEW_kg = OEW_kg_example
            /\ p.W_payload_max_kg = W_payload_max_kg_example}

CallPoints(p) ==
    /\ pc = "caller"
    /\ call' = [fn |-> "calculate_payload_range_points", in |-> p,
                out |-> calculate_payload_range_points(p)]
    /\ UNCHANGED solver
    /\ UNCHANGED <<th, run>>

(***************************************************************************)
(* The formulas called directly, one call after the other.                 *)
(***************************************************************************)
NextFormulas ==
    \/ \E W0_N_in \in Forces : CallEmptyWeightFraction(W0_N_in)
    \/ \E p \in TakeoffArguments : CallTakeoff(p)
    \/ \E p \in LandingArguments : CallLanding(p)
    \/ \E p \in RangeArguments : CallRange(p)
    \/ \E p \in PointsArguments : CallPoints(p)

SpecFormulas == Init /\ [][NextFormulas]_vars

(***************************************************************************)
(* src/main/analise_aeronave.py: main and run_full_analysis.  A config     *)
(* holds the three groups of parameters of create_default_config;          *)
(* W_land_kg is a key that a config may or may not have, the set of its    *)
(* values here.  A step of the run is noted in run.steps when the run      *)
(* starts it, with the arguments it passes.                                *)
(***************************************************************************)
T_rev_N_default == 0
\* Line 132: 65 % of the MTOW, in hundredths.
W_land_share == 65

\* Lines 98-105: tolerance and max_iterations are left to their defaults.
WeightParameters(config) ==
    [W_payload_kg        |-> config.weight_params.W_payload_kg,
     R_km                |-> config.weight_params.R_km,
     V_cmps              |-> config.weight_params.V_mps,
     h_m                 |-> config.weight_params.h_m,
     initial_W0_guess_kg |-> config.weight_params.initial_W0_guess_kg,
     tolerance           |-> tolerance_default,
     max_iterations      |-> max_iterations_default,
     verbose             |-> TRUE]

\* Lines 119-126; the first is a run that takes the weight from elsewhere.
TakeoffParameters_Config(config, weight_results) ==
    [W_kg |-> MTOW_kg_example, S_m2 |-> config.runway_params.S_m2,
     T_N_static |-> config.runway_params.T_N_static,
     CLmax_TO |-> config.runway_params.CLmax_TO,
     rho0_kgm3 |-> rho0_kgm3_default, mu_roll |-> mu_roll_default,
     CL_ground |-> CL_ground_default,
     CD0_takeoff |-> config.runway_params.CD0_takeoff,
     K |-> config.runway_params.K, Vlof_factor |-> Vlof_factor_default,
     V_avg_factor |-> V_avg_factor_default, t_rot_s |-> t_rot_s_default,
     h_obs_m |-> h_obs_m_takeoff_default]

TakeoffParameters(config, weight_results) ==
    [W_kg |-> weight_results.MTOW_kg, S_m2 |-> config.runway_params.S_m2,
     T_N_static |-> config.runway_params.T_N_static,
     CLmax_TO |-> config.runway_params.CLmax_TO,
     rho0_kgm3 |-> rho0_kgm3_default, mu_roll |-> mu_roll_default,
     CL_ground |-> CL_ground_default,
     CD0_takeoff |-> config.runway_params.CD0_takeoff,
     K |-> config.runway_params.K, Vlof_factor |-> Vlof_factor_default,
     V_avg_factor |-> V_avg_factor_default, t_rot_s |-> t_rot_s_default,
     h_obs_m |-> h_obs_m_takeoff_default]

\* Line 132.
W_land_kg_of(config, weight_results) ==
    IF config.runway_params.W_land_kg = {}
    THEN MulDiv(weight_results.MTOW_kg, W_land_share, 100)
    ELSE CHOOSE W \in config.runway_params.W_land_kg : TRUE

\* Lines 134-140.
LandingParameters(config, weight_results) ==
    [W_land_kg |-> W_land_kg_of(config, weight_results),
     S_m2 |-> config.runway_params.S_m2,
     CLmax_land |-> config.runway_params.CLmax_land,
     rho0_kgm3 |-> rho0_kgm3_default, mu_brake |-> mu_brake_default,
     CD0_landing |-> config.runway_params.CD0_landing,
     K |-> config.runway_params.K,
     CL_land_ground |-> CL_land_ground_default,
     Vapp_factor |-> Vapp_factor_default, Vtd_factor |-> Vtd_factor_default,
     gamma_app_deg |-> gamma_app_deg_default,
     h_obs_m |-> h_obs_m_landing_default, h_flare_m |-> h_flare_m_default,
     t_flare_s |-> t_flare_s_default, T_rev_N |-> T_rev_N_default]

\* Lines 151-168; results always has "weight_analysis" here (line 108).
PointsParameters(config, results) ==
    [OEW_kg |-> results["weight_analysis"].OEW_kg,
     W_payload_max_kg |-> config.payload_range_params.W_payload_max_kg,
     W_fuel_max_kg |-> config.payload_range_params.W_fuel_max_kg,
     MTOW_kg |-> results["weight_analysis"].MTOW_kg,
     rho_kgm3 |-> config.payload_range_params.rho_kgm3,
     S_m2 |-> config.payload_range_params.S_m2,
     V_mps |-> config.payload_range_params.V_mps,
     C_D0 |-> config.payload_range_params.C_D0,
     k_2 |-> config.payload_range_params.k_2,
     TSFC_kgNs |-> config.payload_range_params.TSFC_kgNs]

\* Lines 186-196.
Summary(config, results) ==
    [MTOW_kg |-> results["weight_analysis"].MTOW_kg,
     OEW_kg |-> results["weight_analysis"].OEW_kg,
     fuel_capacity_kg |-> results["weight_analysis"].W_fuel_kg,
     max_payload_kg |-> config.payload_range_params.W_payload_max_kg,
     range_with_max_payload_km |->
         results["payload_range_points"].B.range_km,
     max_range_km |-> results["payload_range_points"].D.range_km,
     takeoff_distance_m |-> results["takeoff_analysis"].S_total_takeoff_m,
     landing_distance_m |-> results["landing_analysis"].S_total_landing_m]

\* The configs tried: create_default_config's, with payloads 0 and 2812 kg,
\* ranges 7200, 12000 and 30000 km, static thrusts 10000, 136880 and
\* 200000 N, a landing weight left out or 26389 kg, and TSFC 0 or
\* 2.0028e-5 for the payload-range diagram.
Configs ==
    [weight_params :
         [W_payload_kg : {0, 281200}, R_km : {7200, 12000, 30000},
          V_mps : Speeds, h_m : Altitudes, initial_W0_guess_kg : Guesses],
     runway_params :
         [S_m2 : {1137}, T_N_static : {10000, 136880, 200000},
          CLmax_TO : {210000000}, CD0_takeoff : {CD0_takeoff_default},
          K : {K_default}, CLmax_land : {260000000},
          CD0_landing : {CD0_landing_default},
          W_land_kg : {{}, {2638900}}],
     payload_range_params :
         [W_payload_max_kg : {W_payload_max_kg_example},
          W_fuel_max_kg : {W_fuel_max_kg_example},
          rho_kgm3 : {rho_kgm3_example}, S_m2 : {S_m2_example},
          V_mps : {V_mps_example}, C_D0 : {C_D0_example},
          k_2 : {k_2_example}, TSFC_kgNs : {0, TSFC_kgNs_example}]]

Step(name, arguments) == [step |-> name, in |-> arguments]

\* main, line 271, and run_full_analysis up to the call of lines 98-105.
MainRuns(config) ==
    /\ run.pc \in {"idle", "done", "raised"}
    /\ Enter(WeightParameters(config))
    /\ run' = [pc |-> "weights", config |-> config,
               steps |-> <<Step("weights", WeightParameters(config))>>,
               results |-> <<>>, ret |-> NoReturn, saved |-> FALSE]
    /\ UNCHANGED <<call, th>>

WeightsReturned == run.pc = "weights" /\ pc = "caller"

\* Lines 107-109: the solver returned a dict.
WeightsKept ==
    /\ WeightsReturned
    /\ ret.kind = "dict"
    /\ run' = [run EXCEPT !.pc = "takeoff",
                          !.results = "weight_analysis" :> ret.value]
    /\ UNCHANGED <<solver, call, th>>

\* Lines 110-112: the solver returned None.
WeightsFailed ==
    /\ WeightsReturned
    /\ ret.kind = "None"
    /\ run' = [run EXCEPT !.pc = "main", !.ret = ReturnDict(<<>>)]
    /\ UNCHANGED <<solver, call, th>>

\* The solver raised: the exception leaves run_full_analysis and main.
WeightsRaised ==
    /\ WeightsReturned
    /\ ret.kind = "raise"
    /\ run' = [run EXCEPT !.pc = "raised", !.ret = ret]
    /\ UNCHANGED <<solver, call, th>>

\* What a step that calls a formula makes of the run: the formula's result
\* is kept under key and the run goes on, or its exception leaves the run.
AfterFormula(name, arguments, out, key, next) ==
    IF out.kind = "raise"
    THEN [run EXCEPT !.pc = "raised", !.ret = out,
                     !.steps = Append(@, Step(name, arguments))]
    ELSE [run EXCEPT !.pc = next,
                     !.steps = Append(@, Step(name, arguments)),
                     !.results = @ @@ (key :> out.value)]

\* Lines 119-128.
RunTakeoff ==
    /\ run.pc = "takeoff"
    /\ LET p == TakeoffParameters(run.config, run.results["weight_analysis"])
       IN  run' = AfterFormula("takeoff", p, estimate_takeoff_distance(p).out,
                               "takeoff_analysis", "landing")
    /\ UNCHANGED <<solver, call, th>>

\* Lines 132-142.
RunLanding ==
    /\ run.pc = "landing"
    /\ LET p == LandingParameters(run.config, run.results["weight_analysis"])
       IN  run' = AfterFormula("landing", p, estimate_landing_distance(p).out,
                               "landing_analysis", "payload_range")
    /\ UNCHANGED <<solver, call, th>>

\* Lines 147-170.
RunPayloadRange ==
    /\ run.pc = "payload_range"
    /\ LET p == PointsParameters(run.config, run.results)
       IN  run' = AfterFormula("payload_range", p,
                               calculate_payload_range_points(p),
                               "payload_range_points", "plot")
    /\ UNCHANGED <<solver, call, th>>

\* Lines 173-183: plot_payload_range_diagram saves the figure or catches
\* the error of saving it; its result is not looked at.
RunPlot(saved) ==
    /\ run.pc = "plot"
    /\ run' = [run EXCEPT
                 !.pc = "summary",
                 !.steps = Append(@, Step("plot",
                                 [points |-> run.results["payload_range_points"],
                                  saved |-> saved])),
                 !.results = @ @@ ("payload_range_diagram_path" :> "path")]
    /\ UNCHANGED <<solver, call, th>>

\* Lines 186-199.
RunSummary ==
    /\ run.pc = "summary"
    /\ LET results == run.results @@
                      ("summary" :> Summary(run.config, run.results))
       IN  run' = [run EXCEPT
                     !.pc = "main",
                     !.steps = Append(@, Step("summary", results["summary"])),
                     !.results = results,
                     !.ret = ReturnDict(results)]
    /\ UNCHANGED <<solver, call, th>>

\* main, lines 274-287: save_results is called for a result that is not
\* empty.
MainSaves == DOMAIN run.ret.value # {}

MainEnds ==
    /\ run.pc = "main"
    /\ run' = [run EXCEPT !.pc = "done", !.saved = MainSaves]
    /\ UNCHANGED <<solver, call, th>>

\* The solver under its default cap: the configs tried converge, raise or
\* are infeasible before 50 passes, and the code after the loop is not
\* reached.
NextAnalysis ==
    \/ \E config \in Configs : MainRuns(config)
    \/ IterateRaise
    \/ IterateInfeasible
    \/ IterateConverged
    \/ IterateContinue
    \/ WeightsKept
    \/ WeightsFailed
    \/ WeightsRaised
    \/ RunTakeoff
    \/ RunLanding
    \/ RunPayloadRange
    \/ \E saved \in BOOLEAN : RunPlot(saved)
    \/ RunSummary
    \/ MainEnds

SpecAnalysis == Init /\ [][NextAnalysis]_vars

(***************************************************************************)
(* Properties of estimate_takeoff_distance.                                *)
(***************************************************************************)
TakeoffCalled == call.fn = "estimate_takeoff_distance"
\* The call reaches line 84 and evaluates it: no division by zero before.
TakeoffEvaluated ==
    /\ TakeoffCalled
    /\ FixMul(call.in.rho0_kgm3 * call.in.S_m2, call.in.CLmax_TO) # 0
    /\ Force(call.in.W_kg) # 0
\* The keys of the dict of lines 132-141.
TakeoffFields ==
    {"Vs_TO_mps", "Vlof_mps", "a_avg_ms2", "gamma_climb_deg",
     "S_ground_run_m", "S_rotation_m", "S_airborne_m", "S_total_takeoff_m"}

\* C14: a call whose a_avg is <= 0 raises nothing and returns a dict with
\* the keys of the normal branch, in which the ground run and the total are
\* infinite and the rotation distance, the airborne distance and the climb
\* angle are 0.
C14_NoAccelerationFullResult ==
    (TakeoffEvaluated /\ TakeoffGroundRoll(call.in).a_avg <= 0) =>
        /\ call.out.kind = "dict"
        /\ DOMAIN call.out.value = TakeoffFields
        /\ call.out.value.S_ground_run_m = Inf
        /\ call.out.value.S_total_takeoff_m = Inf
        /\ call.out.value.S_rotation_m = 0
        /\ call.out.value.S_airborne_m = 0
        /\ call.out.value.gamma_climb_deg = 0
        /\ call.out.value.a_avg_ms2 = TakeoffGroundRoll(call.in).a_avg

\* A takeoff at 41557.66 kg whose thrust does not overcome drag and friction.
C14_Witness ==
    /\ TakeoffEvaluated /\ call.in.W_kg = 4155766 /\ call.in.T_N_static > 0
    /\ TakeoffGroundRoll(call.in).a_avg < 0
    /\ call.out.kind = "dict" /\ call.out.value.S_total_takeoff_m = Inf
    /\ call.log = <<Warning("acceleration")>>

\* C15: a call with a_avg > 0 whose sin_gamma_cl is <= 0 raises nothing and
\* returns an infinite airborne distance, a climb angle of 0 and an infinite
\* total, with a finite ground run and a finite rotation distance.
C15_NoClimbInfiniteAirborne ==
    (TakeoffEvaluated /\ TakeoffGroundRoll(call.in).a_avg > 0
                      /\ TakeoffClimbSine(call.in) <= 0) =>
        /\ call.out.kind = "dict"
        /\ call.out.value.S_airborne_m = Inf
        /\ call.out.value.gamma_climb_deg = 0
        /\ call.out.value.S_total_takeoff_m = Inf
        /\ Finite(call.out.value.S_ground_run_m)
        /\ Finite(call.out.value.S_rotation_m)

\* The aircraft accelerates on the ground but its drag at liftoff exceeds
\* the thrust.
C15_Witness ==
    /\ TakeoffEvaluated /\ TakeoffGroundRoll(call.in).a_avg > 0
    /\ TakeoffClimbSine(call.in) < 0
    /\ call.out.kind = "dict" /\ call.out.value.S_airborne_m = Inf
    /\ call.out.value.S_ground_run_m > 0 /\ call.out.value.S_rotation_m > 0
    /\ call.log = <<Warning("excess thrust")>>

\* C16: in every dict the call returns, the total is the sum of the ground
\* run, the rotation distance and the airborne distance it returns (an
\* infinite term making the sum infinite); and when a_avg > 0 and
\* sin_gamma_cl > 0, with t_rot_s >= 0 and h_obs_m >= 0, the three are
\* finite and not negative and the total is finite and positive.
C16_TotalIsSumOfSegments ==
    (TakeoffCalled /\ call.out.kind = "dict") =>
        LET r == call.out.value
        IN  /\ r.S_total_takeoff_m =
                   Plus(Plus(r.S_ground_run_m, r.S_rotation_m), r.S_airborne_m)
            /\ (/\ r.a_avg_ms2 > 0 /\ TakeoffClimbSine(call.in) > 0
                /\ call.in.t_rot_s >= 0 /\ call.in.h_obs_m >= 0) =>
                   /\ Finite(r.S_ground_run_m) /\ r.S_ground_run_m >= 0
                   /\ Finite(r.S_rotation_m) /\ r.S_rotation_m >= 0
                   /\ Finite(r.S_airborne_m) /\ r.S_airborne_m >= 0
                   /\ Finite(r.S_total_takeoff_m)
                   /\ r.S_total_takeoff_m > 0

\* The takeoff of run_example: three positive segments.
C16_Witness ==
    /\ TakeoffCalled /\ call.out.kind = "dict"
    /\ call.in.W_kg = 4155766 /\ call.in.T_N_static = 136880
    /\ call.out.value.S_ground_run_m > 0 /\ call.out.value.S_rotation_m > 0
    /\ call.out.value.S_airborne_m > 0
    /\ Finite(call.out.value.S_total_takeoff_m)
    /\ call.out.value.S_total_takeoff_m > call.out.value.S_ground_run_m

(***************************************************************************)
(* Properties of estimate_landing_distance.                                *)
(***************************************************************************)
\* The call reaches line 222 and evaluates it.
LandingEvaluated ==
    /\ call.fn = "estimate_landing_distance"
    /\ FixMul(call.in.rho0_kgm3 * call.in.S_m2, call.in.CLmax_land) # 0
    /\ Tan(Radians(call.in.gamma_app_deg)) # 0
    /\ Force(call.in.W_land_kg) # 0

\* C17: a call whose a_avg_land is >= 0 raises nothing and returns an
\* infinite ground roll and an infinite total, with the approach distance
\* (h_obs_m - h_flare_m) / tan(gamma_app) and the flare distance
\* Vapp * t_flare_s of lines 204 and 207.
C17_NoStopInfiniteRoll ==
    (LandingEvaluated /\ LandingAcceleration(call.in) >= 0) =>
        /\ call.out.kind = "dict"
        /\ call.out.value.S_ground_roll_m = Inf
        /\ call.out.value.S_total_landing_m = Inf
        /\ call.out.value.S_approach_m = LandingApproach(call.in).Sa
        /\ call.out.value.S_flare_m = LandingApproach(call.in).Sf
        /\ call.out.value.a_avg_land_ms2 = LandingAcceleration(call.in)

\* A landing at 26389 kg with 200000 N of forward thrust: the aircraft
\* speeds up on the ground, and approach and flare are positive distances.
C17_Witness ==
    /\ LandingEvaluated /\ call.in.W_land_kg = 2638900
    /\ LandingAcceleration(call.in) > 0
    /\ call.out.kind = "dict" /\ call.out.value.S_ground_roll_m = Inf
    /\ call.out.value.S_approach_m > 0 /\ call.out.value.S_flare_m > 0
    /\ call.log = <<Warning("deceleration")>>

(***************************************************************************)
(* Properties of calculate_range_km.                                       *)
(***************************************************************************)
RangeCalled == call.fn = "calculate_range_km"
\* The end weight is <= 0 or the start weight is <= the end weight.
RangeDegenerate ==
    call.in.W_end_kg <= 0 \/ call.in.W_start_kg <= call.in.W_end_kg
\* The Breguet relation read the other way: the range returned, put back
\* in W_end / W_start = exp(-R g TSFC / (V L_D)), gives the weight ratio
\* the call was made with, to five decimal places.
RangeGivesWeightRatio ==
    LET perUnitLog == DivDigits(MulDiv(call.in.V_mps, call.in.L_D_avg, Limb),
                                G100 * call.in.TSFC_kgNs, 8)
        ratio      == Exp(- FixDiv(call.out.value, perUnitLog))
    IN  Abs(ratio - FixDiv(call.in.W_end_kg, call.in.W_start_kg)) < 1000
RangeIsBreguet ==
    /\ call.out.kind = "float"
    /\ call.out.value = BreguetRange(call.in.W_start_kg, call.in.W_end_kg,
                                     call.in.L_D_avg, call.in.V_mps,
                                     call.in.TSFC_kgNs)
    /\ (call.in.V_mps > 0 /\ call.in.L_D_avg > 0 /\ call.in.TSFC_kgNs > 0)
           => RangeGivesWeightRatio

\* C18 as stated: calculate_range_km returns exactly 0 and raises nothing
\* when the end weight is <= 0 or the start weight is <= the end weight,
\* whatever L/D, speed and TSFC are; in every other case it returns the
\* Breguet range.
C18_ZeroOrBreguet ==
    RangeCalled =>
        IF RangeDegenerate THEN call.out = Return(0) ELSE RangeIsBreguet

\* C18 amended: as above, but in the other cases it returns the Breguet
\* range when TSFC is not 0 and raises ZeroDivisionError when TSFC is 0.
C18_ZeroOrBreguetOrZeroDivision ==
    RangeCalled =>
        IF RangeDegenerate THEN call.out = Return(0)
        ELSE IF call.in.TSFC_kgNs = 0
             THEN /\ call.out.kind = "raise"
                  /\ call.out.exc = "ZeroDivisionError"
        ELSE RangeIsBreguet

\* A call with the start weight below the end weight and TSFC 0 has
\* returned 0.
C18_Witness ==
    /\ RangeCalled
    /\ call.in.W_start_kg < call.in.W_end_kg
    /\ call.in.TSFC_kgNs = 0
    /\ call.out = Return(0)

(***************************************************************************)
(* Properties of calculate_payload_range_points.                           *)
(***************************************************************************)
PointsReturned ==
    /\ call.fn = "calculate_payload_range_points"
    /\ call.out.kind = "dict"
\* The aircraft of run_example, in its cruise condition.
ReferenceAircraft ==
    /\ call.in.OEW_kg = 2206924
    /\ call.in.MTOW_kg = 4155766
    /\ call.in.W_fuel_max_kg = 1873300
    /\ call.in.W_payload_max_kg = 281200
    /\ call.in.V_mps > 0
    /\ call.in.TSFC_kgNs > 0

\* C19: in every dict returned by calculate_payload_range_points point A
\* has range 0 and the maximum payload, point B the payload of A and point
\* D payload 0; for the reference aircraft the range of D is greater than
\* the range of B.
C19_PointsOfTheDiagram ==
    PointsReturned =>
        /\ call.out.value.A.range_km = 0
        /\ call.out.value.A.payload_kg = call.in.W_payload_max_kg
        /\ call.out.value.B.payload_kg = call.out.value.A.payload_kg
        /\ call.out.value.D.payload_kg = 0
        /\ ReferenceAircraft =>
               call.out.value.D.range_km > call.out.value.B.range_km

\* The reference aircraft's points have been returned, with a positive
\* range at B and a longer one at D.
C19_Witness ==
    /\ PointsReturned
    /\ ReferenceAircraft
    /\ call.out.value.B.range_km > 0
    /\ call.out.value.D.range_km > call.out.value.B.range_km

(***************************************************************************)
(* Properties of run_full_analysis and main.                               *)
(***************************************************************************)
StepOrder ==
    <<"weights", "takeoff", "landing", "payload_range", "plot", "summary">>
\* The steps started so far are the first steps of StepOrder, in order.
StepsInOrder ==
    /\ Len(run.steps) <= Len(StepOrder)
    /\ \A k \in 1 .. Len(run.steps) : run.steps[k].step = StepOrder[k]
\* The solver call of the run has returned or raised.
SolveOver == run.pc # "idle" /\ ~(run.pc = "weights" /\ pc = "loop")
\* The arguments of the steps come from the dict the solver returned.
StepsUseTheSolve ==
    \A k \in 1 .. Len(run.steps) :
        /\ run.steps[k].step = "takeoff" =>
               /\ ret.kind = "dict"
               /\ run.steps[k].in.W_kg = ret.value.MTOW_kg
        /\ run.steps[k].step = "payload_range" =>
               /\ ret.kind = "dict"
               /\ run.steps[k].in.OEW_kg = ret.value.OEW_kg
               /\ run.steps[k].in.MTOW_kg = ret.value.MTOW_kg
\* After a solve that returned None or raised, no other step is started and
\* nothing is saved; a solve that returned None makes the run return {}.
FailedSolveStopsTheRun ==
    (SolveOver /\ ret.kind # "dict") =>
        /\ Len(run.steps) = 1
        /\ ~run.saved
        /\ run.pc \in {"weights", "main", "done", "raised"}
        /\ (run.pc \in {"main", "done"}) =>
               (ret = ReturnNone /\ run.ret = ReturnDict(<<>>))
        /\ (run.pc = "raised") => (ret.kind = "raise" /\ run.ret = ret)
\* main saves the results of a run that went through.
CompleteRunIsSaved ==
    (run.pc = "done" /\ ret.kind = "dict") =>
        (Len(run.steps) = Len(StepOrder) /\ run.saved)

\* C20: the steps of run_full_analysis start in the order weight solve,
\* takeoff, landing, payload-range, plot, summary; the takeoff estimate is
\* given the solver's MTOW and the payload-range points the solver's OEW
\* and MTOW; when the weight solve fails none of the later steps starts,
\* the run returns an empty dict and main does not save.
C20_OrderedStepsFromTheSolve ==
    /\ StepsInOrder
    /\ StepsUseTheSolve
    /\ FailedSolveStopsTheRun
    /\ CompleteRunIsSaved

\* A run has gone through its six steps with the MTOW of a converged solve
\* and main has saved its results.
C20_Witness ==
    /\ run.pc = "done"
    /\ Len(run.steps) = 6
    /\ state = "Converged"
    /\ run.steps[2].in.W_kg = ret.value.MTOW_kg
    /\ run.saved

\* A run whose solve returned None has ended, with {} and nothing saved.
C20_WitnessFailedSolve ==
    /\ run.pc = "done"
    /\ state = "Diverged"
    /\ run.ret = ReturnDict(<<>>)
    /\ ~run.saved

(***************************************************************************)
(* The guess handed to calculate_empty_weight_fraction.                    *)
(***************************************************************************)
\* C21: with a payload >= 0 and an initial guess > 0, the guess W0_kg that a
\* pass of the loop is about to hand (as W0_kg * g, line 112) to
\* calculate_empty_weight_fraction is greater than 0.
C21_GuessStaysPositive ==
    (InLoop /\ args.W_payload_kg >= 0 /\ args.initial_W0_guess_kg > 0) =>
        (W0_kg > 0 /\ W0_N > 0)

(***************************************************************************)
(* The payloads of the four points.                                        *)
(***************************************************************************)
PointsWeightsNonNegative ==
    /\ call.in.OEW_kg >= 0
    /\ call.in.W_payload_max_kg >= 0
    /\ call.in.W_fuel_max_kg >= 0
    /\ call.in.MTOW_kg >= 0

\* C22: for non-negative OEW, maximum payload, fuel capacity and MTOW the
\* points returned have payload(A) = payload(B) >= payload(C) >=
\* payload(D) = 0: the payload of C is neither above the maximum payload
\* nor negative.
C22_PayloadsOrdered ==
    (PointsReturned /\ PointsWeightsNonNegative) =>
        /\ call.out.value.A.payload_kg = call.out.value.B.payload_kg
        /\ call.out.value.B.payload_kg >= call.out.value.C.payload_kg
        /\ call.out.value.C.payload_kg >= call.out.value.D.payload_kg
        /\ call.out.value.D.payload_kg = 0

====
